---- MODULE Spec2Model ----
(***************************************************************************)
(* services-agent MCP server (src/server_v2.py): the tool registry of      *)
(* MCPServer, the registration decorator MCPServer.tool, and the /mcp      *)
(* dispatcher MCPServer._handle_mcp_request, with the handlers registered  *)
(* at module level.                                                        *)
(*                                                                         *)
(* JSON / Python values are tagged records [t |-> <type>, v |-> <value>];  *)
(* a Python dict decoded from JSON is an "object" whose v is a function    *)
(* from key strings to values, Python None is JNull.                       *)
(***************************************************************************)
EXTENDS Integers, Sequences, FiniteSets, TLC

VARIABLES
    tools,      \* MCPServer.tools: insertion-ordered dict, a sequence of descriptors with unique names
    serving,    \* TRUE once server.run() has been called
    payload,    \* body of the request handled last (NoPayload before the first request)
    decoded,    \* what request.get_json() gave for it
    outcome,    \* what _handle_mcp_request did with it: a response, or an exception leaving the view
    invoked,    \* handler invocations made while handling it: <<>> or <<[func, arguments, ended]>>
    defective,  \* collaborator modules (tools.*) that raise when called; fixed for the process lifetime
    threads,    \* the worker threads of the threaded server: what each is doing with its request
    passed,     \* history: name -> the parameters dict of the latest registration of that name
    declared,   \* history: name -> the description and function of the latest registration of that name
    startTools, \* history: the registry as it was when run() was called
    lastList,   \* history: result of the latest tools/list answered before this request ({} = none)
    lastInit,   \* history: result of the latest initialize answered before this request ({} = none)
    errSeen     \* history: a request before this one was answered with an error envelope

vars == <<tools, serving, payload, decoded, outcome, invoked, defective,
          threads, passed, declared, startTools, lastList, lastInit, errSeen>>

-----------------------------------------------------------------------------
(* Bounds of the model *)

MaxRequestId == 1

\* Worker threads serving requests at the same time.
NumThreads == 2

Threads == 1..NumThreads

-----------------------------------------------------------------------------
(* JSON values *)

JNull == [t |-> "null"]
JBool(b) == [t |-> "bool", v |-> b]
JNum(n) == [t |-> "number", v |-> n]
JStr(s) == [t |-> "string", v |-> s]
JArr(a) == [t |-> "array", v |-> a]
JObj(o) == [t |-> "object", v |-> o]

EmptyDict == JObj(<<>>)

\* Python truth value of a decoded JSON value (the test `not data`).
Truthy(j) ==
    CASE j.t = "null" -> FALSE
      [] j.t = "bool" -> j.v
      [] j.t = "number" -> j.v # 0
      [] j.t = "string" -> j.v # ""
      [] j.t = "array" -> Len(j.v) > 0
      [] j.t = "object" -> DOMAIN j.v # {}

\* dict.get(key, default) on a value that is a dict.
DictGet(d, key, default) ==
    IF key \in DOMAIN d.v THEN d.v[key] ELSE default

\* Python's name for the type of a decoded JSON value, as it appears in messages.
PyTypeName(j) ==
    CASE j.t = "null" -> "NoneType"
      [] j.t = "bool" -> "bool"
      [] j.t = "number" -> "int"
      [] j.t = "string" -> "str"
      [] j.t = "array" -> "list"
      [] j.t = "object" -> "dict"

\* str(x) as an f-string applies it to a scalar.
PyStr(j) ==
    CASE j.t = "null" -> "None"
      [] j.t = "bool" -> (IF j.v THEN "True" ELSE "False")
      [] j.t = "number" -> ToString(j.v)
      [] j.t = "string" -> j.v
      [] j.t = "array" -> "[...]"
      [] j.t = "object" -> "{...}"

\* A dict with the given optional entries; an entry is {} (absent) or {value}.
Entry(key, opt) ==
    IF opt = {} THEN <<>> ELSE key :> (CHOOSE x \in opt : TRUE)

-----------------------------------------------------------------------------
(* Error codes of the dispatcher *)

PARSE_ERROR == -32700
NOT_FOUND == -32601
INTERNAL_ERROR == -32603

-----------------------------------------------------------------------------
(* The tool registry: MCPServer.tools and MCPServer.tool *)

\* Keys of the dict, in insertion order.
ToolNames(reg) == {reg[i].name : i \in DOMAIN reg}

\* self.tools[name], for a name that is a key.
Lookup(reg, name) == reg[CHOOSE i \in DOMAIN reg : reg[i].name = name]

\* The descriptor MCPServer.tool stores for (name, description, parameters, func).
Descriptor(name, description, parameters, func) ==
    [name |-> name,
     description |-> description,
     inputSchema |-> JObj([type |-> JStr("object"),
                           properties |-> DictGet(parameters, "properties", EmptyDict),
                           required |-> DictGet(parameters, "required", JArr(<<>>))]),
     handler |-> func]

\* Mutant of DictSet: the registry kept as a list that every registration is
\* appended to.
DictSetAppends(reg, name, descriptor) == Append(reg, descriptor)

\* Mutant of DictSet: the first registration of a name wins (setdefault).
DictSetKeepsFirst(reg, name, descriptor) ==
    IF name \in ToolNames(reg) THEN reg ELSE Append(reg, descriptor)

\* self.tools[name] = descriptor: a new key is appended, an existing key keeps
\* its position and gets the new value.
DictSet(reg, name, descriptor) ==
    IF name \in ToolNames(reg)
    THEN [i \in DOMAIN reg |-> IF reg[i].name = name THEN descriptor ELSE reg[i]]
    ELSE Append(reg, descriptor)

-----------------------------------------------------------------------------
(* The handlers registered at module level and their collaborators *)

\* The functions defined in server_v2.py that the model registers.
Funcs == {"get_health_advice", "find_pharmacy"}

\* Parameter names of each function, in signature order.
ParamNames(func) ==
    CASE func = "get_health_advice" -> <<"symptoms", "age", "sex">>
      [] func = "find_pharmacy" -> <<"city", "emergency">>

\* Default values of the parameters that have one.
Defaults(func) ==
    CASE func = "get_health_advice" -> [age |-> JNum(30), sex |-> JStr("male")]
      [] func = "find_pharmacy" -> [city |-> JStr("Ouagadougou"), emergency |-> JBool(FALSE)]

\* The collaborator module each function delegates to.
CollaboratorOf(func) ==
    CASE func = "get_health_advice" -> "tool_health_advice"
      [] func = "find_pharmacy" -> "tool_pharmacy_locator"

Collaborators == {CollaboratorOf(f) : f \in Funcs}

Range(seq) == {seq[i] : i \in DOMAIN seq}

Return(value) == [kind |-> "return", value |-> value]
Raise(type, message) == [kind |-> "raise", type |-> type, message |-> message]

\* The cities the pharmacy directory knows.
SupportedCities ==
    {JStr("Ouagadougou"), JStr("Bobo-Dioulasso"), JStr("Koudougou"),
     JStr("Ouahigouya"), JStr("Banfora")}

\* A call into the tools package: a pure function of its arguments that either
\* returns a JSON-serializable value or fails.  An input problem the caller can
\* correct (here a city the directory does not know) is returned as an
\* error-shaped value.
Collaborator(module, function, arguments, broken) ==
    IF module \in broken
    THEN Raise("RuntimeError", module \o "." \o function \o " failed")
    ELSE IF "city" \in DOMAIN arguments.v /\ arguments.v.city \notin SupportedCities
    THEN Return(JObj([status |-> JStr("error"),
                      message |-> JStr("Ville non supportee")]))
    ELSE Return(JObj([status |-> JStr("success"),
                      source |-> JStr(module \o "." \o function),
                      input |-> arguments]))

\* The body of a registered function, run with its parameters bound.
FuncBody(func, bound, broken) ==
    CASE func = "get_health_advice" ->
           Collaborator("tool_health_advice", "get_health_advice", JObj(bound), broken)
      [] func = "find_pharmacy" ->
           Collaborator("tool_pharmacy_locator", "execute",
                        JObj([city |-> bound.city, emergency |-> bound.emergency]), broken)

\* Parameters of func without a default that the keyword arguments leave unbound,
\* in signature order.
MissingParams(func, keys) ==
    SelectSeq(ParamNames(func), LAMBDA p : p \notin DOMAIN Defaults(func) /\ p \notin keys)

\* func(**arguments): Python binds the keyword arguments to the signature, then
\* runs the body.
CallFunc(func, arguments, broken) ==
    IF arguments.t # "object"
    THEN Raise("TypeError", func \o "() argument after ** must be a mapping, not "
                            \o PyTypeName(arguments))
    ELSE LET keys == DOMAIN arguments.v
             unexpected == keys \ Range(ParamNames(func))
             missing == MissingParams(func, keys)
             bound == [p \in Range(ParamNames(func)) |->
                         IF p \in keys THEN arguments.v[p] ELSE Defaults(func)[p]]
         IN  IF unexpected # {}
             THEN Raise("TypeError", func \o "() got an unexpected keyword argument '"
                                     \o (CHOOSE k \in unexpected : TRUE) \o "'")
             ELSE IF Len(missing) > 0
             THEN Raise("TypeError", func \o "() missing " \o ToString(Len(missing))
                                     \o " required positional argument: '"
                                     \o missing[1] \o "'")
             ELSE FuncBody(func, bound, broken)

-----------------------------------------------------------------------------
(* The FastMCP front end: the functions server.py decorates with @mcp.tool() *)

\* The tool names of server.py: @mcp.tool() registers a function by its own name.
FastMcpTools == {"get_health_advice", "find_pharmacy"}

\* The parameters of each function of server.py, in signature order.
FastMcpParamNames(func) ==
    CASE func = "get_health_advice" -> <<"symptoms", "age", "sex">>
      [] func = "find_pharmacy" -> <<"city", "emergency">>

\* Default values of the parameters of server.py that have one.
FastMcpDefaults(func) ==
    CASE func = "get_health_advice" -> [age |-> JNum(30), sex |-> JStr("male")]
      [] func = "find_pharmacy" -> [city |-> JStr("Ouagadougou"), emergency |-> JBool(FALSE)]

\* The characters str.strip() removes.
Whitespace == {" ", "\t", "\n", "\r"}

RECURSIVE LStrip(_), RStrip(_)

LStrip(s) ==
    IF Len(s) > 0 /\ SubSeq(s, 1, 1) \in Whitespace THEN LStrip(SubSeq(s, 2, Len(s))) ELSE s

RStrip(s) ==
    IF Len(s) > 0 /\ SubSeq(s, Len(s), Len(s)) \in Whitespace
    THEN RStrip(SubSeq(s, 1, Len(s) - 1)) ELSE s

\* str.strip(): the text without its leading and trailing whitespace.
PyStrip(s) == RStrip(LStrip(s))

\* The body of a function of server.py, run with its parameters bound:
\* get_health_advice answers symptoms that are empty or shorter than three
\* characters itself.
FastMcpBody(func, bound, broken) ==
    CASE func = "get_health_advice" ->
           IF ~Truthy(bound.symptoms)
           THEN Return(JObj([status |-> JStr("error"),
                             message |-> JStr("Veuillez decrire vos symptomes (minimum 3 caracteres). Exemple: 'mal de tete', 'fievre'")]))
           ELSE IF bound.symptoms.t # "string"
           THEN Raise("AttributeError", "'" \o PyTypeName(bound.symptoms)
                                        \o "' object has no attribute 'strip'")
           ELSE IF Len(PyStrip(bound.symptoms.v)) < 3
           THEN Return(JObj([status |-> JStr("error"),
                             message |-> JStr("Veuillez decrire vos symptomes (minimum 3 caracteres). Exemple: 'mal de tete', 'fievre'")]))
           ELSE Collaborator("tool_health_advice", "get_health_advice", JObj(bound), broken)
      [] func = "find_pharmacy" ->
           Collaborator("tool_pharmacy_locator", "execute",
                        JObj([city |-> bound.city, emergency |-> bound.emergency]), broken)

\* A function of server.py called with keyword arguments that bind to its
\* signature.
FastMcpCall(func, arguments, broken) ==
    FastMcpBody(func,
                [p \in Range(FastMcpParamNames(func)) |->
                    IF p \in DOMAIN arguments.v THEN arguments.v[p]
                    ELSE FastMcpDefaults(func)[p]],
                broken)

-----------------------------------------------------------------------------
(* json.dumps and the response envelopes *)

RECURSIVE JsonDumps(_), DumpItems(_, _), DumpMembers(_, _)

\* json.dumps(value, ensure_ascii=False, default=str); the model's strings hold
\* no character that needs escaping.  A dict's members are written in the
\* dict's order; the model's dicts carry none, so a fixed order is used.
JsonDumps(j) ==
    CASE j.t = "null" -> "null"
      [] j.t = "bool" -> (IF j.v THEN "true" ELSE "false")
      [] j.t = "number" -> ToString(j.v)
      [] j.t = "string" -> "\"" \o j.v \o "\""
      [] j.t = "array" -> "[" \o DumpItems(j.v, 1) \o "]"
      [] j.t = "object" -> "{" \o DumpMembers(j.v, DOMAIN j.v) \o "}"

DumpItems(seq, i) ==
    IF i > Len(seq) THEN ""
    ELSE JsonDumps(seq[i]) \o (IF i < Len(seq) THEN ", " ELSE "") \o DumpItems(seq, i + 1)

DumpMembers(obj, keys) ==
    IF keys = {} THEN ""
    ELSE LET k == CHOOSE x \in keys : TRUE
         IN  "\"" \o k \o "\": " \o JsonDumps(obj[k])
             \o (IF keys \ {k} # {} THEN ", " ELSE "") \o DumpMembers(obj, keys \ {k})

\* Mutant of ResultEnvelope: the id of the parse-error line, null, copied into
\* the result envelopes.
ResultEnvelopeNullId(request_id, result) ==
    JObj([jsonrpc |-> JStr("2.0"), id |-> JNull, result |-> result])

\* jsonify({"jsonrpc": "2.0", "id": request_id, "result": result})
ResultEnvelope(request_id, result) ==
    JObj([jsonrpc |-> JStr("2.0"), id |-> request_id, result |-> result])

\* Mutant of ErrorEnvelope: an error envelope that also carries "result": null.
ErrorEnvelopeWithResult(request_id, code, message) ==
    JObj([jsonrpc |-> JStr("2.0"), id |-> request_id, result |-> JNull,
          error |-> JObj([code |-> JNum(code), message |-> JStr(message)])])

\* jsonify({"jsonrpc": "2.0", "id": request_id, "error": {"code": code, "message": message}})
ErrorEnvelope(request_id, code, message) ==
    JObj([jsonrpc |-> JStr("2.0"), id |-> request_id,
          error |-> JObj([code |-> JNum(code), message |-> JStr(message)])])

\* What a call of the view function ends with: a response (status, JSON body), or
\* an exception that leaves _handle_mcp_request for Flask to turn into an error page.
Response(status, body) == [kind |-> "response", status |-> status, body |-> body]
Escapes(type, message) == [kind |-> "exception", type |-> type, message |-> message]

\* The outcome of the dispatcher together with the handler invocations it made.
Done(out, calls) == [outcome |-> out, invoked |-> calls]

-----------------------------------------------------------------------------
(* The dispatcher: MCPServer._handle_mcp_request *)

ServerName == "services-agent"
ServerVersion == "2.0.0"

\* An HTTP request body: bytes that are no JSON document, or a JSON document.
Malformed == [t |-> "malformed"]

\* request.get_json(): the decoded document.  For a body it cannot decode Flask
\* raises BadRequest, or (silently, in builds that only check the mimetype first)
\* returns None.
GetJson(body) ==
    IF body.t = "malformed"
    THEN {Raise("BadRequest", "Failed to decode JSON object"), Return(JNull)}
    ELSE {Return(body)}

\* The branch for method == "initialize".
Initialize(request_id) ==
    Response(200, ResultEnvelope(request_id,
        JObj([protocolVersion |-> JStr("2024-11-05"),
              serverInfo |-> JObj([name |-> JStr(ServerName), version |-> JStr(ServerVersion)]),
              capabilities |-> JObj([tools |-> JObj([listChanged |-> JBool(FALSE)])])])))

\* The list built for method == "tools/list".
ToolsListing(reg) ==
    JArr([i \in DOMAIN reg |->
            JObj([name |-> JStr(reg[i].name),
                  description |-> JStr(reg[i].description),
                  inputSchema |-> reg[i].inputSchema])])

\* The branch for method == "tools/list".
ToolsList(reg, request_id) ==
    Response(200, ResultEnvelope(request_id, JObj([tools |-> ToolsListing(reg)])))

\* `tool_name not in self.tools`: the keys are the registered names.
NotInTools(reg, tool_name) ==
    ~(tool_name.t = "string" /\ tool_name.v \in ToolNames(reg))

\* Mutant of InvokeTool: the except branch reports the failure as the text of a
\* result.
InvokeToolReportsSuccess(reg, request_id, tool_name, arguments, broken) ==
    LET func == Lookup(reg, tool_name.v).handler
        r == CallFunc(func, arguments, broken)
        call == [func |-> func, arguments |-> arguments, ended |-> r]
        text == IF r.kind = "return" THEN JsonDumps(r.value) ELSE r.message
    IN  Done(Response(200, ResultEnvelope(request_id,
                 JObj([content |-> JArr(<<JObj([type |-> JStr("text"),
                                                text |-> JStr(text)])>>)]))),
             <<call>>)

\* Mutant of InvokeTool: a returned value whose status is "error" is answered
\* with an error envelope.
InvokeToolErrorStatusAsError(reg, request_id, tool_name, arguments, broken) ==
    LET func == Lookup(reg, tool_name.v).handler
        r == CallFunc(func, arguments, broken)
        call == [func |-> func, arguments |-> arguments, ended |-> r]
    IN  IF r.kind = "return" /\ DictGet(r.value, "status", JNull) # JStr("error")
        THEN Done(Response(200, ResultEnvelope(request_id,
                     JObj([content |-> JArr(<<JObj([type |-> JStr("text"),
                                                    text |-> JStr(JsonDumps(r.value))])>>)]))),
                  <<call>>)
        ELSE Done(Response(200, ErrorEnvelope(request_id, INTERNAL_ERROR,
                     IF r.kind = "return" THEN JsonDumps(r.value) ELSE r.message)),
                  <<call>>)

\* The try/except around the handler call.
InvokeTool(reg, request_id, tool_name, arguments, broken) ==
    LET func == Lookup(reg, tool_name.v).handler
        r == CallFunc(func, arguments, broken)
        call == [func |-> func, arguments |-> arguments, ended |-> r]
    IN  IF r.kind = "return"
        THEN Done(Response(200, ResultEnvelope(request_id,
                     JObj([content |-> JArr(<<JObj([type |-> JStr("text"),
                                                    text |-> JStr(JsonDumps(r.value))])>>)]))),
                  <<call>>)
        ELSE Done(Response(200, ErrorEnvelope(request_id, INTERNAL_ERROR, r.message)),
                  <<call>>)

\* Mutant of ToolsCall: an unknown tool is reported as invalid params, -32602.
ToolsCallInvalidParams(reg, request_id, params, broken) ==
    IF params.t # "object"
    THEN Done(Escapes("AttributeError",
                      "'" \o PyTypeName(params) \o "' object has no attribute 'get'"), <<>>)
    ELSE LET tool_name == DictGet(params, "name", JNull)
             arguments == DictGet(params, "arguments", EmptyDict)
         IN  IF tool_name.t \in {"array", "object"}
             THEN Done(Escapes("TypeError",
                               "unhashable type: '" \o PyTypeName(tool_name) \o "'"), <<>>)
             ELSE IF NotInTools(reg, tool_name)
             THEN Done(Response(200, ErrorEnvelope(request_id, -32602,
                                    "Tool not found: " \o PyStr(tool_name))), <<>>)
             ELSE InvokeTool(reg, request_id, tool_name, arguments, broken)

\* Mutant of ToolsCall: the message for an unknown tool does not name it.
ToolsCallUnnamed(reg, request_id, params, broken) ==
    IF params.t # "object"
    THEN Done(Escapes("AttributeError",
                      "'" \o PyTypeName(params) \o "' object has no attribute 'get'"), <<>>)
    ELSE LET tool_name == DictGet(params, "name", JNull)
             arguments == DictGet(params, "arguments", EmptyDict)
         IN  IF tool_name.t \in {"array", "object"}
             THEN Done(Escapes("TypeError",
                               "unhashable type: '" \o PyTypeName(tool_name) \o "'"), <<>>)
             ELSE IF NotInTools(reg, tool_name)
             THEN Done(Response(200, ErrorEnvelope(request_id, NOT_FOUND,
                                    "Tool not found")), <<>>)
             ELSE InvokeTool(reg, request_id, tool_name, arguments, broken)

\* The branch for method == "tools/call".
ToolsCall(reg, request_id, params, broken) ==
    IF params.t # "object"
    THEN Done(Escapes("AttributeError",
                      "'" \o PyTypeName(params) \o "' object has no attribute 'get'"), <<>>)
    ELSE LET tool_name == DictGet(params, "name", JNull)
             arguments == DictGet(params, "arguments", EmptyDict)
         IN  IF tool_name.t \in {"array", "object"}
             THEN Done(Escapes("TypeError",
                               "unhashable type: '" \o PyTypeName(tool_name) \o "'"), <<>>)
             ELSE IF NotInTools(reg, tool_name)
             THEN Done(Response(200, ErrorEnvelope(request_id, NOT_FOUND,
                                    "Tool not found: " \o PyStr(tool_name))), <<>>)
             ELSE InvokeTool(reg, request_id, tool_name, arguments, broken)

\* Mutant of Route: without the final else, an unknown method falls through to
\* the parse error.
RouteUnknownAsParseError(reg, data, broken) ==
    LET request_id == DictGet(data, "id", JNull)
        method == DictGet(data, "method", JStr(""))
        params == DictGet(data, "params", EmptyDict)
    IN  IF method = JStr("initialize") THEN Done(Initialize(request_id), <<>>)
        ELSE IF method = JStr("tools/list") THEN Done(ToolsList(reg, request_id), <<>>)
        ELSE IF method = JStr("tools/call") THEN ToolsCall(reg, request_id, params, broken)
        ELSE Done(Response(400, ErrorEnvelope(request_id, PARSE_ERROR, "Parse error")), <<>>)

\* Mutant of Route: initialize insists on params being a dict.
RouteInitializeChecksParams(reg, data, broken) ==
    LET request_id == DictGet(data, "id", JNull)
        method == DictGet(data, "method", JStr(""))
        params == DictGet(data, "params", EmptyDict)
    IN  IF method = JStr("initialize")
        THEN IF params.t = "object"
             THEN Done(Initialize(request_id), <<>>)
             ELSE Done(Response(200, ErrorEnvelope(request_id, INTERNAL_ERROR,
                                    "params must be an object")), <<>>)
        ELSE IF method = JStr("tools/list") THEN Done(ToolsList(reg, request_id), <<>>)
        ELSE IF method = JStr("tools/call") THEN ToolsCall(reg, request_id, params, broken)
        ELSE Done(Response(200, ErrorEnvelope(request_id, NOT_FOUND,
                               "Method not found: " \o PyStr(method))), <<>>)

\* The routing on `method`, for data that is a non-empty dict.
Route(reg, data, broken) ==
    LET request_id == DictGet(data, "id", JNull)
        method == DictGet(data, "method", JStr(""))
        params == DictGet(data, "params", EmptyDict)
    IN  IF method = JStr("initialize") THEN Done(Initialize(request_id), <<>>)
        ELSE IF method = JStr("tools/list") THEN Done(ToolsList(reg, request_id), <<>>)
        ELSE IF method = JStr("tools/call") THEN ToolsCall(reg, request_id, params, broken)
        ELSE Done(Response(200, ErrorEnvelope(request_id, NOT_FOUND,
                               "Method not found: " \o PyStr(method))), <<>>)

\* _handle_mcp_request, given what request.get_json() did.
HandleMcpRequest(reg, got, broken) ==
    IF got.kind = "raise"
    THEN Done(Escapes(got.type, got.message), <<>>)
    ELSE LET data == got.value
         IN  IF ~Truthy(data)
             THEN Done(Response(400, ErrorEnvelope(JNull, PARSE_ERROR, "Parse error")), <<>>)
             ELSE IF data.t # "object"
             THEN Done(Escapes("AttributeError",
                               "'" \o PyTypeName(data) \o "' object has no attribute 'get'"), <<>>)
             ELSE Route(reg, data, broken)

-----------------------------------------------------------------------------
(* The calls the model makes: registrations and request bodies *)

\* parameters= of the get_health_advice registration.
HealthParameters ==
    JObj([properties |->
            JObj([symptoms |-> JObj([type |-> JStr("string"),
                                     description |-> JStr("Description des symptomes ressentis")]),
                  age |-> JObj([type |-> JStr("integer"),
                                description |-> JStr("Age de la personne (pour conseils adaptes)")]),
                  sex |-> JObj([type |-> JStr("string"),
                                description |-> JStr("Sexe ('male' ou 'female')")])]),
          required |-> JArr(<<JStr("symptoms")>>)])

\* parameters= of the find_pharmacy registration.
PharmacyParameters ==
    JObj([properties |->
            JObj([city |-> JObj([type |-> JStr("string"),
                                 description |-> JStr("Ville du Burkina (defaut: Ouagadougou)")]),
                  emergency |-> JObj([type |-> JStr("boolean"),
                                      description |-> JStr("Si true, inclut aussi les numeros d'urgence")])]),
          required |-> JArr(<<>>)])

\* The calls of server.tool(name, description, parameters)(func) the model makes:
\* two of the module's own, and one that registers an existing name again with
\* another description, a parameters dict without keys and another function.
Registrations ==
    { <<"get_health_advice", "Analyse des symptomes et conseils sante, remedes et recommandations.",
        HealthParameters, "get_health_advice">>,
      <<"find_pharmacy", "Trouve les pharmacies de garde (24h/24) et numeros d'urgence au Burkina Faso.",
        PharmacyParameters, "find_pharmacy">>,
      <<"get_health_advice", "Pharmacies de garde", EmptyDict, "find_pharmacy">> }

Ids == {{}, {JStr("req-a")}} \cup {{JNum(i)} : i \in 1..MaxRequestId}

\* params of the requests that are no tools/call.
PlainParams == {{}, {JNull}, {EmptyDict}}

\* params of the tools/call requests: no dict, no or an unregistered or an
\* unhashable name, and the registered names with several arguments.
CallParams ==
    {{}, {JNull}}
    \cup {{JObj(Entry("name", n))} :
            n \in {{}, {JStr("missing")}, {JArr(<<JStr("find_pharmacy")>>)}}}
    \cup {{JObj(Entry("name", {JStr("get_health_advice")}) @@ Entry("arguments", a))} :
            a \in {{}, {EmptyDict}, {JObj([symptoms |-> JStr("toux")])},
                   {JObj([symptoms |-> JStr("toux"), bogus |-> JNum(1)])}, {JArr(<<>>)}}}
    \cup {{JObj(Entry("name", {JStr("find_pharmacy")}) @@ Entry("arguments", a))} :
            a \in {{}, {JObj([city |-> JStr("Bobo-Dioulasso")])}}}

Envelope(id, method, params) ==
    JObj(Entry("id", id) @@ Entry("method", method) @@ Entry("params", params))

\* Further requests, each with one id: an initialize whose params is a list, a
\* find_pharmacy for a city the directory does not know, and a
\* get_health_advice whose symptoms are two characters long.
MoreEnvelopes ==
    {Envelope({JNum(1)}, {JStr("initialize")}, {JArr(<<JStr("x")>>)}),
     Envelope({JStr("req-a")}, {JStr("tools/call")},
              {JObj([name |-> JStr("find_pharmacy"),
                     arguments |-> JObj([city |-> JStr("Paris")])])}),
     Envelope({JNum(1)}, {JStr("tools/call")},
              {JObj([name |-> JStr("get_health_advice"),
                     arguments |-> JObj([symptoms |-> JStr("ab")])])})}

Envelopes ==
    {Envelope(i, {JStr("initialize")}, p) : i \in Ids, p \in PlainParams}
    \cup {Envelope(i, m, {}) : i \in Ids, m \in {{}, {JStr("tools/list")}, {JStr("foo/bar")}}}
    \cup {Envelope(i, {JStr("tools/call")}, p) : i \in Ids, p \in CallParams}
    \cup MoreEnvelopes

NonObjects == {JNull, JArr(<<>>), JArr(<<JNum(1)>>), JStr("hello")}

Bodies == {Malformed} \cup NonObjects \cup Envelopes

-----------------------------------------------------------------------------
(* The state machine *)

None == [kind |-> "none"]
NoPayload == [t |-> "none"]

\* A worker thread that holds no request.
Idle == [pc |-> "idle"]

IsResponse(out) == out.kind = "response"
IsErrorEnvelope(out) == IsResponse(out) /\ "error" \in DOMAIN out.body.v
IsResultEnvelope(out) == IsResponse(out) /\ "result" \in DOMAIN out.body.v

\* MCPServer.__init__: an empty registry; nothing served yet.
Init ==
    /\ tools = <<>>
    /\ serving = FALSE
    /\ payload = NoPayload
    /\ decoded = None
    /\ outcome = None
    /\ invoked = <<>>
    /\ defective \in SUBSET Collaborators
    /\ threads = [t \in Threads |-> Idle]
    /\ passed = <<>>
    /\ declared = <<>>
    /\ startTools = <<>>
    /\ lastList = {}
    /\ lastInit = {}
    /\ errSeen = FALSE

\* @server.tool(name=..., description=..., parameters=...) applied to func.
Tool(name, description, parameters, func) ==
    /\ ~serving
    /\ tools' = DictSet(tools, name, Descriptor(name, description, parameters, func))
    /\ passed' = [n \in DOMAIN passed \cup {name} |-> IF n = name THEN parameters ELSE passed[n]]
    /\ declared' = [n \in DOMAIN declared \cup {name} |->
                       IF n = name THEN [description |-> description, func |-> func]
                       ELSE declared[n]]
    /\ UNCHANGED <<serving, payload, decoded, outcome, invoked, defective, threads,
                   startTools, lastList, lastInit, errSeen>>

Register == \E r \in Registrations : Tool(r[1], r[2], r[3], r[4])

\* server.run(): from here on requests are served.
Run ==
    /\ ~serving
    /\ serving' = TRUE
    /\ startTools' = tools
    /\ UNCHANGED <<tools, payload, decoded, outcome, invoked, defective, threads,
                   passed, declared, lastList, lastInit, errSeen>>

\* The method a decoded request names ("" when it names none), for the history.
MethodOf(got) ==
    IF got.kind = "return" /\ got.value.t = "object"
    THEN DictGet(got.value, "method", JStr("")) ELSE JStr("")

\* The result the request handled last was answered with, if it was an answered `method`.
Answered(method) ==
    IF IsResultEnvelope(outcome) /\ MethodOf(decoded) = JStr(method)
    THEN {outcome.body.v.result} ELSE {}

\* The history kept from the request handled last, when the next one arrives.
History ==
    /\ lastList' = IF Answered("tools/list") # {} THEN Answered("tools/list") ELSE lastList
    /\ lastInit' = IF Answered("initialize") # {} THEN Answered("initialize") ELSE lastInit
    /\ errSeen' = (errSeen \/ IsErrorEnvelope(outcome))

\* Mutant of Serve: a tool whose handler failed is dropped from the registry.
ServeEvictsFailedTool(body, got) ==
    LET d == HandleMcpRequest(tools, got, defective)
        failed == {d.invoked[i].func : i \in {j \in DOMAIN d.invoked :
                                                d.invoked[j].ended.kind = "raise"}}
    IN  /\ payload' = body
        /\ decoded' = got
        /\ outcome' = d.outcome
        /\ invoked' = d.invoked
        /\ History
        /\ tools' = SelectSeq(tools, LAMBDA t : t.handler \notin failed)
        /\ UNCHANGED <<serving, defective, threads, passed, declared, startTools>>

\* Mutant of Serve: a tools/call moves the tool it called to the front of the
\* registry.
ServeMovesCalledToolFirst(body, got) ==
    LET d == HandleMcpRequest(tools, got, defective)
        called == {d.invoked[i].func : i \in DOMAIN d.invoked}
    IN  /\ payload' = body
        /\ decoded' = got
        /\ outcome' = d.outcome
        /\ invoked' = d.invoked
        /\ History
        /\ tools' = SelectSeq(tools, LAMBDA t : t.handler \in called)
                       \o SelectSeq(tools, LAMBDA t : t.handler \notin called)
        /\ UNCHANGED <<serving, defective, threads, passed, declared, startTools>>

\* One POST /mcp: mcp_endpoint calls _handle_mcp_request on the request.
Serve(body, got) ==
    LET d == HandleMcpRequest(tools, got, defective)
    IN  /\ payload' = body
        /\ decoded' = got
        /\ outcome' = d.outcome
        /\ invoked' = d.invoked
        /\ History
        /\ UNCHANGED <<tools, serving, defective, threads, passed, declared, startTools>>

McpEndpoint ==
    /\ serving
    /\ \E body \in Bodies : \E got \in GetJson(body) : Serve(body, got)

Next == Register \/ Run \/ McpEndpoint

Spec == Init /\ [][Next]_vars

-----------------------------------------------------------------------------
(* The threaded server: app.run(threaded=True) serves each request in a thread
   of its own, and a thread may be preempted between two reads of self.tools *)

\* The requests the threads are sent: each with an id of its own kind.
ThreadBodies ==
    {Envelope({JNum(1)}, {JStr("tools/list")}, {}),
     Envelope({JStr("req-a")}, {JStr("tools/call")},
              {JObj([name |-> JStr("find_pharmacy")])}),
     Envelope({}, {JStr("tools/call")},
              {JObj([name |-> JStr("get_health_advice"),
                     arguments |-> JObj([symptoms |-> JStr("toux")])])}),
     Envelope({JStr("req-b")}, {JStr("foo/bar")}, {})}

\* What the sequential requests leave behind: untouched by the threads.
seqVars == <<payload, decoded, outcome, invoked, lastList, lastInit, errSeen>>

\* The request is decoded and routed to the tools/list branch.
ReadsListing(got) ==
    /\ got.kind = "return"
    /\ Truthy(got.value)
    /\ got.value.t = "object"
    /\ DictGet(got.value, "method", JStr("")) = JStr("tools/list")

\* The request is decoded and routed to the tools/call branch, and its name
\* passes `tool_name not in self.tools` on the registry reg.
ReadsDescriptor(reg, got) ==
    /\ got.kind = "return"
    /\ Truthy(got.value)
    /\ got.value.t = "object"
    /\ DictGet(got.value, "method", JStr("")) = JStr("tools/call")
    /\ DictGet(got.value, "params", EmptyDict).t = "object"
    /\ ~NotInTools(reg, DictGet(DictGet(got.value, "params", EmptyDict), "name", JNull))

\* One element of the list comprehension of tools/list.
ToolEntry(t) ==
    JObj([name |-> JStr(t.name),
          description |-> JStr(t.description),
          inputSchema |-> t.inputSchema])

\* A thread takes a request up to its first read of self.tools that another
\* read follows: tools/list starts iterating self.tools.values(), tools/call
\* has found its name in self.tools; every other request is answered at once.
Receive(t) ==
    /\ serving
    /\ threads[t].pc = "idle"
    /\ \E body \in ThreadBodies : \E got \in GetJson(body) :
          threads' = [threads EXCEPT ![t] =
              IF ReadsListing(got)
              THEN [pc |-> "listing", got |-> got, size |-> Len(tools), idx |-> 1,
                    acc |-> <<>>, seen |-> {tools}]
              ELSE IF ReadsDescriptor(tools, got)
              THEN [pc |-> "fetch", got |-> got, seen |-> {tools}]
              ELSE [pc |-> "done", got |-> got, seen |-> {tools},
                    response |-> HandleMcpRequest(tools, got, defective).outcome]]
    /\ UNCHANGED <<tools, serving, defective, passed, declared, startTools>>
    /\ UNCHANGED seqVars

\* One step of the iteration over self.tools.values(): the iterator raises when
\* the dict has another size than at its creation, ends after the last entry,
\* and else yields the value now stored at the next position.
ListNext(t) ==
    /\ threads[t].pc = "listing"
    /\ LET th == threads[t]
           request_id == DictGet(th.got.value, "id", JNull)
       IN  threads' = [threads EXCEPT ![t] =
               IF Len(tools) # th.size
               THEN [pc |-> "done", got |-> th.got, seen |-> th.seen,
                     response |-> Escapes("RuntimeError",
                                          "dictionary changed size during iteration")]
               ELSE IF th.idx > Len(tools)
               THEN [pc |-> "done", got |-> th.got, seen |-> th.seen,
                     response |-> Response(200, ResultEnvelope(request_id,
                                               JObj([tools |-> JArr(th.acc)])))]
               ELSE [th EXCEPT !.idx = th.idx + 1,
                               !.acc = Append(th.acc, ToolEntry(tools[th.idx]))]]
    /\ UNCHANGED <<tools, serving, defective, passed, declared, startTools>>
    /\ UNCHANGED seqVars

\* Mutant of Fetch: the request id kept in an attribute of the server that every
\* thread in flight writes, so the answer carries the id of any of them.
FetchSharedRequestId(t) ==
    /\ threads[t].pc = "fetch"
    /\ \E u \in Threads :
          /\ threads[u].pc # "idle"
          /\ LET th == threads[t]
                 request_id == DictGet(threads[u].got.value, "id", JNull)
                 params == DictGet(th.got.value, "params", EmptyDict)
             IN  threads' = [threads EXCEPT ![t] =
                     [pc |-> "done", got |-> th.got, seen |-> th.seen,
                      response |-> InvokeTool(tools, request_id,
                                              DictGet(params, "name", JNull),
                                              DictGet(params, "arguments", EmptyDict),
                                              defective).outcome]]
    /\ UNCHANGED <<tools, serving, defective, passed, declared, startTools>>
    /\ UNCHANGED seqVars

\* tool = self.tools[tool_name] and the handler call in its try/except.
Fetch(t) ==
    /\ threads[t].pc = "fetch"
    /\ LET th == threads[t]
           request_id == DictGet(th.got.value, "id", JNull)
           params == DictGet(th.got.value, "params", EmptyDict)
       IN  threads' = [threads EXCEPT ![t] =
               [pc |-> "done", got |-> th.got, seen |-> th.seen,
                response |-> InvokeTool(tools, request_id,
                                        DictGet(params, "name", JNull),
                                        DictGet(params, "arguments", EmptyDict),
                                        defective).outcome]]
    /\ UNCHANGED <<tools, serving, defective, passed, declared, startTools>>
    /\ UNCHANGED seqVars

\* The response is sent and the thread ends.
Finish(t) ==
    /\ threads[t].pc = "done"
    /\ threads' = [threads EXCEPT ![t] = Idle]
    /\ UNCHANGED <<tools, serving, defective, passed, declared, startTools>>
    /\ UNCHANGED seqVars

Threaded == \E t \in Threads : Receive(t) \/ ListNext(t) \/ Fetch(t) \/ Finish(t)

NextThreads == Register \/ Run \/ Threaded

\* The registry is filled before run(), as the module does; the requests are
\* then served by threads.
SpecThreads == Init /\ [][NextThreads]_vars

\* server.tool(...)(func) called while requests are served: the same
\* assignment to self.tools, seen by every thread in the middle of its reads.
ToolWhileServing(name, description, parameters, func) ==
    /\ serving
    /\ tools' = DictSet(tools, name, Descriptor(name, description, parameters, func))
    /\ passed' = [n \in DOMAIN passed \cup {name} |-> IF n = name THEN parameters ELSE passed[n]]
    /\ declared' = [n \in DOMAIN declared \cup {name} |->
                       IF n = name THEN [description |-> description, func |-> func]
                       ELSE declared[n]]
    /\ threads' = [t \in Threads |->
                      IF threads[t].pc \in {"listing", "fetch"}
                      THEN [threads[t] EXCEPT !.seen = @ \cup {tools'}]
                      ELSE threads[t]]
    /\ UNCHANGED <<serving, defective, startTools>>
    /\ UNCHANGED seqVars

RegisterWhileServing == \E r \in Registrations : ToolWhileServing(r[1], r[2], r[3], r[4])

NextRuntime == Register \/ Run \/ Threaded \/ RegisterWhileServing

\* As SpecThreads, with registrations going on while the threads serve.
SpecRuntime == Init /\ [][NextRuntime]_vars

-----------------------------------------------------------------------------
(* Vocabulary of the properties *)

\* A request has been handled.
Handled == decoded.kind # "none"

\* The request handled last was decoded, and to a dict.
DecodedDict == decoded.kind = "return" /\ decoded.value.t = "object"

\* The id the request handled last carries: null when it carries none.
InboundId == IF DecodedDict THEN DictGet(decoded.value, "id", JNull) ELSE JNull

\* The request handled last reached the routing on `method` as a tools/call
\* whose params is a dict.
IsToolsCall ==
    /\ DecodedDict
    /\ Truthy(decoded.value)
    /\ MethodOf(decoded) = JStr("tools/call")
    /\ DictGet(decoded.value, "params", EmptyDict).t = "object"

\* The name that tools/call asks for: null when params carries none.
CalledName == DictGet(DictGet(decoded.value, "params", EmptyDict), "name", JNull)

\* The literal texts the dispatcher puts in front of a formatted value.
Prefixes == {"", "Tool not found: ", "Method not found: "}

\* text ends with part after one of the dispatcher's prefixes, hence contains it.
Contains(text, part) == \E pre \in Prefixes : text = pre \o part

\* A response body that is a well-formed envelope: an id, and exactly one of
\* result and error, an error being {code: integer, message: string}.
WellFormed(body) ==
    /\ body.t = "object"
    /\ "id" \in DOMAIN body.v
    /\ ("result" \in DOMAIN body.v) # ("error" \in DOMAIN body.v)
    /\ "error" \in DOMAIN body.v =>
          /\ body.v.error.t = "object"
          /\ {"code", "message"} \subseteq DOMAIN body.v.error.v
          /\ body.v.error.v.code.t = "number"
          /\ body.v.error.v.message.t = "string"

ErrorCode == outcome.body.v.error.v.code
ErrorMessage == outcome.body.v.error.v.message.v

-----------------------------------------------------------------------------
(* Properties *)

\* C1: every decoded payload handed to the dispatcher - a JSON value that is no
\* object, an envelope whose params is no mapping, a tools/call whose name or
\* arguments have an unexpected type - is answered with a well-formed response
\* envelope; no failure leaves the dispatcher.
C1_NoFailureEscapes ==
    (Handled /\ decoded.kind = "return") =>
        (IsResponse(outcome) /\ WellFormed(outcome.body))

\* C2: every response envelope the dispatcher produces holds exactly one of
\* `result` and `error`, and an error holds an integer code and a string message.
C2_ExactlyOneOfResultOrError ==
    IsResponse(outcome) =>
        /\ ("result" \in DOMAIN outcome.body.v) # ("error" \in DOMAIN outcome.body.v)
        /\ IsErrorEnvelope(outcome) =>
              /\ outcome.body.v.error.t = "object"
              /\ DOMAIN outcome.body.v.error.v = {"code", "message"}
              /\ ErrorCode.t = "number"
              /\ outcome.body.v.error.v.message.t = "string"

\* An error envelope produced after a result envelope was.
C2_Witness == IsErrorEnvelope(outcome) /\ lastList # {} /\ errSeen

\* C3: whatever the method and whether the outcome is a result or an error, the
\* response carries the id of the request verbatim, null when it has none.
C3_IdEchoed ==
    IsResponse(outcome) =>
        /\ "id" \in DOMAIN outcome.body.v
        /\ outcome.body.v.id = InboundId

\* A tools/call answered with an error that carries the request's string id, after
\* a result was answered.
C3_Witness ==
    /\ IsErrorEnvelope(outcome)
    /\ MethodOf(decoded) = JStr("tools/call")
    /\ outcome.body.v.id = JStr("req-a")
    /\ lastInit # {}

\* C4: a handler that raises during tools/call is answered with an error envelope
\* of code -32603 whose message contains the failure's description and whose id
\* is the request's; it is not reported as a result and does not propagate.
C4_HandlerFailureIsInternalError ==
    \A i \in DOMAIN invoked :
        invoked[i].ended.kind = "raise" =>
            /\ IsErrorEnvelope(outcome)
            /\ ~IsResultEnvelope(outcome)
            /\ ErrorCode = JNum(-32603)
            /\ Contains(ErrorMessage, invoked[i].ended.message)
            /\ outcome.body.v.id = InboundId

\* A handler whose collaborator failed, called by a request with a numeric id.
C4_Witness ==
    /\ Len(invoked) = 1
    /\ invoked[1].ended.kind = "raise"
    /\ invoked[1].ended.type = "RuntimeError"
    /\ InboundId = JNum(1)

\* C5: after a request answered with an error envelope (unknown tool, unknown
\* method, handler failure) the server keeps serving: the registry is the one
\* run() started with, and every later request gets the outcome it would get from
\* a server that had only just started with that registry.
C5_KeepsServingAfterError ==
    /\ (errSeen \/ IsErrorEnvelope(outcome)) => (serving /\ tools = startTools)
    /\ errSeen =>
          /\ outcome = HandleMcpRequest(startTools, decoded, defective).outcome
          /\ invoked = HandleMcpRequest(startTools, decoded, defective).invoked

\* A tool call that succeeds after an earlier request ended in an error.
C5_Witness ==
    /\ errSeen
    /\ IsResultEnvelope(outcome)
    /\ Len(invoked) = 1
    /\ invoked[1].ended.kind = "return"

\* C6: a tools/call for a name that is not registered, an absent name included,
\* is answered with an error envelope of code -32601 that carries the request's id
\* and whose message includes the name; no handler is invoked.
C6_UnknownToolNotFound ==
    (/\ IsToolsCall
     /\ CalledName.t \in {"null", "string"}
     /\ \A i \in DOMAIN tools : JStr(tools[i].name) # CalledName) =>
        /\ IsErrorEnvelope(outcome)
        /\ ErrorCode = JNum(-32601)
        /\ outcome.body.v.id = InboundId
        /\ Contains(ErrorMessage, PyStr(CalledName))
        /\ invoked = <<>>

\* A call of "missing" on a server with two registered tools.
C6_Witness ==
    /\ IsToolsCall
    /\ CalledName = JStr("missing")
    /\ Len(tools) = 2
    /\ IsErrorEnvelope(outcome)

SupportedMethods == {JStr("initialize"), JStr("tools/list"), JStr("tools/call")}

\* C7: a request whose method is none of initialize, tools/list, tools/call is
\* answered with an error envelope of code -32601 whose message names the method;
\* the registry is not touched and no handler is invoked.
C7_UnknownMethodNotFound ==
    (/\ DecodedDict
     /\ Truthy(decoded.value)
     /\ MethodOf(decoded) \notin SupportedMethods) =>
        /\ IsErrorEnvelope(outcome)
        /\ ErrorCode = JNum(-32601)
        /\ Contains(ErrorMessage, PyStr(MethodOf(decoded)))
        /\ invoked = <<>>
        /\ tools = startTools

\* A request for "foo/bar" on a server with two registered tools.
C7_Witness ==
    /\ DecodedDict
    /\ MethodOf(decoded) = JStr("foo/bar")
    /\ Len(tools) = 2
    /\ IsErrorEnvelope(outcome)

\* C8: a payload that is not a structured document - bytes that are no JSON, or a
\* JSON value that is no object - is answered with a Parse Error envelope: code
\* -32700 and id null.
C8_MalformedIsParseError ==
    (Handled /\ payload.t # "object") =>
        /\ IsErrorEnvelope(outcome)
        /\ ErrorCode = JNum(-32700)
        /\ outcome.body.v.id = JNull

\* The entries of the tools/list result in `outcome`.
Listed == outcome.body.v.result.v.tools.v

\* C9: the tools/list result holds, for every registered name, exactly one entry
\* of that name, whose schema properties and required list are those passed when
\* the name was registered and which does not expose the handler; it holds no
\* entry for a name that was not registered.
C9_ListMatchesRegistrations ==
    (IsResultEnvelope(outcome) /\ MethodOf(decoded) = JStr("tools/list")) =>
        /\ \A n \in DOMAIN passed :
              /\ Cardinality({i \in DOMAIN Listed : Listed[i].v.name = JStr(n)}) = 1
              /\ \A i \in DOMAIN Listed :
                    Listed[i].v.name = JStr(n) =>
                        /\ DOMAIN Listed[i].v = {"name", "description", "inputSchema"}
                        /\ Listed[i].v.inputSchema.v.properties
                              = DictGet(passed[n], "properties", EmptyDict)
                        /\ Listed[i].v.inputSchema.v.required
                              = DictGet(passed[n], "required", JArr(<<>>))
        /\ \A i \in DOMAIN Listed :
              Listed[i].v.name.t = "string" /\ Listed[i].v.name.v \in DOMAIN passed

\* A listing of two tools, one of them registered twice.
C9_Witness ==
    /\ IsResultEnvelope(outcome)
    /\ MethodOf(decoded) = JStr("tools/list")
    /\ Len(Listed) = 2
    /\ passed["get_health_advice"] = EmptyDict

\* C10: handling a request never modifies the registry, and a tools/list or an
\* initialize gives the result the one before it gave, whatever was handled in
\* between.
C10_RegistryReadOnlyAndIdempotent ==
    serving =>
        /\ tools = startTools
        /\ (Answered("tools/list") # {} /\ lastList # {}) => Answered("tools/list") = lastList
        /\ (Answered("initialize") # {} /\ lastInit # {}) => Answered("initialize") = lastInit

\* A second tools/list, with an initialize and an error answered before it.
C10_Witness ==
    /\ Answered("tools/list") # {}
    /\ lastList # {}
    /\ lastInit # {}
    /\ errSeen
    /\ Len(tools) = 2

\* C11: when a registered handler returns, tools/call is answered with a result
\* envelope, without an error, whose content is one item of type "text" holding
\* the serialization of the returned value; an error-shaped value
\* {"status": "error", ...} is delivered the same way.
C11_ReturnIsTextContent ==
    \A i \in DOMAIN invoked :
        invoked[i].ended.kind = "return" =>
            /\ IsResultEnvelope(outcome)
            /\ ~IsErrorEnvelope(outcome)
            /\ outcome.body.v.id = InboundId
            /\ DOMAIN outcome.body.v.result.v = {"content"}
            /\ Len(outcome.body.v.result.v.content.v) = 1
            /\ outcome.body.v.result.v.content.v[1]
                  = JObj([type |-> JStr("text"),
                          text |-> JStr(JsonDumps(invoked[i].ended.value))])

\* A handler that returned an error-shaped value.
C11_Witness ==
    /\ Len(invoked) = 1
    /\ invoked[1].ended.kind = "return"
    /\ DictGet(invoked[1].ended.value, "status", JNull) = JStr("error")
    /\ IsResultEnvelope(outcome)

\* C12: initialize always succeeds: whatever params is (absent, null, empty, a
\* list), the answer is a result envelope with the protocol version, the
\* server's name and version, and tools.listChanged = false.
C12_InitializeAlwaysSucceeds ==
    (DecodedDict /\ MethodOf(decoded) = JStr("initialize")) =>
        /\ IsResultEnvelope(outcome)
        /\ ~IsErrorEnvelope(outcome)
        /\ outcome.body.v.id = InboundId
        /\ outcome.body.v.result.v.protocolVersion = JStr("2024-11-05")
        /\ outcome.body.v.result.v.serverInfo
              = JObj([name |-> JStr("services-agent"), version |-> JStr("2.0.0")])
        /\ outcome.body.v.result.v.capabilities.v.tools.v.listChanged = JBool(FALSE)

\* An initialize whose params is a list.
C12_Witness ==
    /\ DecodedDict
    /\ MethodOf(decoded) = JStr("initialize")
    /\ DictGet(decoded.value, "params", EmptyDict).t = "array"
    /\ IsResultEnvelope(outcome)

\* C13: after any sequence of registrations the names in the registry are
\* unique: there is one descriptor per registered name, and its description,
\* schema and handler are all those of the latest registration of that name, so
\* registering a name again replaces its descriptor wholesale, leaves the others
\* as they were and does not change the number of entries.
C13_LastRegistrationWins ==
    /\ Len(tools) = Cardinality(DOMAIN declared)
    /\ ToolNames(tools) = DOMAIN declared
    /\ \A n \in DOMAIN declared :
          /\ Cardinality({i \in DOMAIN tools : tools[i].name = n}) = 1
          /\ \A i \in DOMAIN tools :
                tools[i].name = n =>
                    /\ tools[i].description = declared[n].description
                    /\ tools[i].handler = declared[n].func
                    /\ tools[i].inputSchema.v.properties
                          = DictGet(passed[n], "properties", EmptyDict)
                    /\ tools[i].inputSchema.v.required
                          = DictGet(passed[n], "required", JArr(<<>>))

\* Two names registered, get_health_advice for the second time with another
\* description, schema and function.
C13_Witness ==
    /\ Len(tools) = 2
    /\ tools[1].name = "get_health_advice"
    /\ tools[1].handler = "find_pharmacy"
    /\ tools[1].description = "Pharmacies de garde"
    /\ tools[2].name = "find_pharmacy"

\* C14: a decoded envelope without the {method, params, id} shape - a dict that
\* carries no `method`, the empty dict included - is answered with the Parse
\* Error code -32700 and id null; it is not routed as a method call.
C14_ShapelessIsParseError ==
    (DecodedDict /\ "method" \notin DOMAIN decoded.value.v) =>
        /\ IsErrorEnvelope(outcome)
        /\ ErrorCode = JNum(PARSE_ERROR)
        /\ outcome.body.v.id = JNull

\* The tools/call handled last names a registered tool and hands it a mapping
\* (an absent `arguments` is the empty mapping).
CallsRegistered ==
    /\ IsToolsCall
    /\ ~NotInTools(tools, CalledName)
    /\ DictGet(DictGet(decoded.value, "params", EmptyDict), "arguments", EmptyDict).t = "object"

\* The keys of the arguments of the tools/call handled last.
ArgumentKeys ==
    DOMAIN DictGet(DictGet(decoded.value, "params", EmptyDict), "arguments", EmptyDict).v

\* The inputSchema of the tool the tools/call handled last names.
CalledSchema == Lookup(tools, CalledName.v).inputSchema.v

\* C15: a tools/call for a registered tool whose arguments omit a property of
\* the tool's `required` list is answered through the result channel, with the
\* handler's structured error value as text content, and not with an error
\* envelope.
C15_OmittedRequiredIsResult ==
    (/\ CallsRegistered
     /\ \E i \in DOMAIN CalledSchema.required.v :
           CalledSchema.required.v[i].v \notin ArgumentKeys) =>
        /\ IsResultEnvelope(outcome)
        /\ ~IsErrorEnvelope(outcome)
        /\ Len(invoked) = 1
        /\ invoked[1].ended.kind = "return"

\* C16: the handler a tools/call invokes is passed only the arguments that are
\* properties of the tool's inputSchema, and the empty mapping when the request
\* carries no `arguments`.
C16_OnlySchemaArgumentsPassed ==
    (CallsRegistered /\ Len(invoked) = 1) =>
        /\ invoked[1].arguments.t = "object"
        /\ DOMAIN invoked[1].arguments.v \subseteq DOMAIN CalledSchema.properties.v
        /\ ("arguments" \notin DOMAIN DictGet(decoded.value, "params", EmptyDict).v
              => invoked[1].arguments = EmptyDict)

\* The keyword arguments of a call bind to the signature of its function.
Binds(call) ==
    /\ call.arguments.t = "object"
    /\ DOMAIN call.arguments.v \subseteq Range(ParamNames(call.func))
    /\ MissingParams(call.func, DOMAIN call.arguments.v) = <<>>

\* C19: server.py and server_v2.py expose the same tool names with the same
\* parameter names, required parameters and defaults, and for the same
\* arguments the function of server.py ends as the function of server_v2.py
\* does: with the same collaborator's result for the same call.
C19_FrontEndsInterchangeable ==
    /\ FastMcpTools = Funcs
    /\ \A f \in Funcs :
          /\ FastMcpParamNames(f) = ParamNames(f)
          /\ FastMcpDefaults(f) = Defaults(f)
    /\ \A i \in DOMAIN invoked :
          Binds(invoked[i]) =>
              FastMcpCall(invoked[i].func, invoked[i].arguments, defective) = invoked[i].ended

C17_ThreadsDoNotInterfere ==
    /\ serving => tools = startTools
    /\ \A t \in Threads :
          threads[t].pc = "done" =>
              threads[t].response
                  = HandleMcpRequest(startTools, threads[t].got, defective).outcome

\* Two requests in flight at once: a tools/call answered with its own id while
\* another thread is in the middle of a tools/list enumeration.
C17_Witness ==
    \E t, u \in Threads :
        /\ threads[t].pc = "done"
        /\ IsResultEnvelope(threads[t].response)
        /\ threads[t].response.body.v.id = JStr("req-a")
        /\ threads[u].pc = "listing"
        /\ threads[u].idx = 2

\* C18: with registrations running while requests are served, every answered
\* request - a tools/call lookup or a tools/list enumeration - got the response
\* the dispatcher gives on the registry as it was at one moment of the request,
\* before or after a registration; no read fails.
C18_RegistryReadsAtomic ==
    \A t \in Threads :
        threads[t].pc = "done" =>
            \E reg \in threads[t].seen :
                threads[t].response = HandleMcpRequest(reg, threads[t].got, defective).outcome

====
